---- MODULE Spec2Model ----
(***************************************************************************)
(* MOQT publisher (src/src-encoder/moq_sender.js) and subscriber           *)
(* (src/unnamed/part_000) workers as state machines.  JavaScript runs each *)
(* handler to its next await without interruption, so one action is one    *)
(* run-to-completion segment: the synchronous part of a message handler,   *)
(* or the continuation of one await.                                       *)
(***************************************************************************)
EXTENDS Integers, Sequences, FiniteSets, TLC

(* ------------------------------ bounds --------------------------------- *)

\* muxersendini messages that pass validation and start an initialisation
MaxInis == 1
\* chunk messages that reach sendChunkToTransport
MaxChunks == 3
\* the same, in a session that is never stopped
MaxSessionChunks == 2
\* the same, in the life of a worker with one initialisation
MaxLifeChunks == 1
\* muxersendini messages that pass validation, where initialisations may overlap
MaxReinits == 2
\* chunk messages that reach sendChunkToTransport there
MaxReinitChunks == 1
\* subscribers the peer brings to one track of the sender
MaxSubscribers == 1
\* host messages delivered to the receiver worker
MaxDlMsgs == 3
\* downloadersendini messages that pass validation and start an initialisation
MaxDlInis == 1
\* object streams the peer opens towards the receiver
MaxStreams == 2
\* largest seqId the send-order inputs are drawn from
MaxSeqId == 6

(* ----------------------------- constants ------------------------------- *)

\* a field that is not present in a JavaScript object (numbers)
ABSENT == -1
\* a field that is not present in a JavaScript object (strings)
NoField == "<absent>"

MOQ_PARAMETER_ROLE_PUBLISHER == 1
MOQ_PARAMETER_ROLE_SUBSCRIBER == 2
MOQ_PARAMETER_ROLE_BOTH == 3
Roles == {MOQ_PARAMETER_ROLE_PUBLISHER, MOQ_PARAMETER_ROLE_SUBSCRIBER, MOQ_PARAMETER_ROLE_BOTH}

StateEnum == {"Created", "Instantiated", "Running", "Stopped"}

\* Object.entries order of the track maps the host sends
TrackOrder == <<"audio", "video", "data">>
TrackTypes == {"audio", "video", "data"}

(* ------------------- wide integers (52-bit base) ----------------------- *)
(* sendOrder values do not fit the model checker's integers: a value is    *)
(* hi * 2^52 + lo with a small lo.                                         *)

Wide(hi, lo) == [hi |-> hi, lo |-> lo]
WideLess(a, b) == a.hi < b.hi \/ (a.hi = b.hi /\ a.lo < b.lo)
\* Number.MAX_SAFE_INTEGER = 2^53 - 1
MAX_SAFE_INTEGER == Wide(2, -1)
\* 2^64 - 1
U64_MAX == Wide(4096, -1)
\* floor(MAX_SAFE_INTEGER / 2) = 2^52 - 1, plus a small n
HalfMaxSafePlus(n) == Wide(1, n - 1)

(* -------------------------- sender: inputs ----------------------------- *)

Track(id, ns, name, auth, hipri, max) ==
  [id |-> id, namespace |-> ns, name |-> name, authInfo |-> auth,
   isHipri |-> hipri, maxInFlightRequests |-> max, numSubscribers |-> ABSENT]

\* the empty object {}
NoTracks == [t \in {} |-> Track(ABSENT, NoField, NoField, NoField, FALSE, 0)]

\* muxerSenderConfig objects.  None carries isSendingStats, so the variable keeps its
\* initial true (line 19) and every accepted chunk message posts sendstats.
\* two tracks with their own ids and namespaces (the example of lines 23-36)
CfgSplit ==
  [urlHostPort |-> "host",
   moqTracks |-> [t \in {"audio", "video"} |->
      IF t = "audio" THEN Track(0, "ns1", "audio", "secret", TRUE, 1)
                     ELSE Track(1, "ns2", "video", "secret", FALSE, 2)]]
\* two tracks that leave out the optional id and share one namespace
CfgShared ==
  [urlHostPort |-> "host",
   moqTracks |-> [t \in {"video", "data"} |->
      IF t = "video" THEN Track(ABSENT, "ns1", "video", "secret", FALSE, 1)
                     ELSE Track(ABSENT, "ns1", "data", "secret", TRUE, 2)]]
CfgNoHost == [urlHostPort |-> "", moqTracks |-> CfgSplit.moqTracks]
CfgEmpty == [urlHostPort |-> "host", moqTracks |-> NoTracks]
CfgMalformed ==
  [urlHostPort |-> "host",
   moqTracks |-> [t \in {"audio"} |-> Track(0, "ns1", "audio", NoField, TRUE, 1)]]
Configs == {CfgSplit, CfgShared, CfgNoHost, CfgEmpty, CfgMalformed}

\* the type of a host message that is neither stop nor muxersendini
ChunkTypes == TrackTypes \cup {"other"}
\* chunk.type of an encoded chunk
ChunkKinds == {"key", "delta"}
\* seqId values the host sends with a chunk
ChunkSeqIds == {-1, 2}

\* what the peer may put in a SUBSCRIBE_REQUEST
SubNamespaces == {"ns1", "ns2"}
SubNames == {"audio", "video", "data"}
SubAuths == {"secret", "wrong"}

(* --------------------------- sender: state ----------------------------- *)

VARIABLES
  workerState,        \* moq_sender.js:17
  tracks,             \* moq_sender.js:21
  moqPublisherState,  \* moq_sender.js:15, trackId -> {currentGroupSeq, currentObjectSeq}
  inFlightRequests,   \* moq_sender.js:40, track type -> pIds of pending close futures
  moqt,               \* moq_sender.js:43, wt and control stream: 0 is null, n the n-th
                      \* session; stream: the initialisation that made the control stream
  wtCount,            \* WebTransport sessions constructed so far
  wtClosed,           \* sessions that were closed
  iniHandlers,        \* muxersendini handlers suspended at an await
  sendHandlers,       \* chunk handlers suspended in createUnidirectionalStream
  closing,            \* object streams whose close future has not settled
  stopHandlers,       \* stop handlers suspended in Promise.all
  subLoops,           \* subscription loops suspended at an await
  written,            \* track type -> summary of the object headers written so far
  wrote,              \* object headers written by the last step
  controlOut,         \* control messages written by the last step
  events,             \* events posted to the host by the last step
  hist,               \* history: counters of what happened so far
  nInis,              \* initialisations started
  nChunks             \* chunks that reached sendChunkToTransport

senderVars ==
  <<workerState, tracks, moqPublisherState, inFlightRequests, moqt, wtCount, wtClosed,
    iniHandlers, sendHandlers, closing, stopHandlers, subLoops, written, wrote, controlOut,
    events, hist, nInis, nChunks>>

(* -------------------------- receiver: state ---------------------------- *)

VARIABLES
  dlWorkerState,      \* part_000:17
  dlUrlHostPortEp,    \* part_000:19
  dlIsSendingStats,   \* part_000:20
  dlTracks,           \* part_000:21
  dlTracksGen,        \* which object the variable tracks refers to: the n-th one assigned
  dlMoqt,             \* part_000:37
  dlWtCount,          \* WebTransport sessions constructed so far
  dlWtClosed,         \* sessions that were closed
  dlIniHandlers,      \* downloadersendini handlers suspended at an await
  dlLoops,            \* moqReceiveObjects loops suspended at an await
  dlControlOut,       \* control messages written by the last step
  dlEvents,           \* events and chunks posted to the host by the last step
  nDlMsgs,            \* host messages delivered
  nDlInis,            \* initialisations started
  nStreams            \* object streams read

dlVars ==
  <<dlWorkerState, dlUrlHostPortEp, dlIsSendingStats, dlTracks, dlTracksGen, dlMoqt,
    dlWtCount, dlWtClosed, dlIniHandlers, dlLoops, dlControlOut, dlEvents, nDlMsgs, nDlInis,
    nStreams>>

(* ------------------------- send order: state --------------------------- *)

VARIABLES
  soSeqId,            \* seqId of chunk a
  soOther,            \* seqId of chunk b of the same track
  soIsHipri,          \* isHipri of the track
  soOrder             \* <<sendOrder(a), sendOrder(b)>> once calculated

soVars == <<soSeqId, soOther, soIsHipri, soOrder>>

vars == <<senderVars, dlVars, soVars>>

(* ------------------------------ helpers -------------------------------- *)

Ev(type, msg) == [type |-> type, msg |-> msg]

Range(f) == {f[x] : x \in DOMAIN f}
SeqOfSet(order, S) == SelectSeq(order, LAMBDA x : x \in S)

(* ----------------------- sender: pure functions ------------------------ *)

\* Math.floor(ret + Number.MAX_SAFE_INTEGER / 2) in IEEE-754 double arithmetic, for an
\* integer 0 <= ret < 2^52.  The exact sum is 2^52 + (ret - 1) + 1/2.  Below 2^52 doubles
\* are spaced 1/2 apart and the sum is exact; from 2^52 on they are spaced 1 apart and the
\* tie rounds to the even neighbour.  Math.floor then drops the fraction, if any is left.
FloorAddHalfMaxSafe(ret) ==
  LET n == ret - 1
  IN  IF n < 0 THEN Wide(1, n)
      ELSE IF n % 2 = 0 THEN Wide(1, n) ELSE Wide(1, n + 1)

moqCalculateSendOrder(seqId, isHipri) ==
  IF seqId < 0 THEN MAX_SAFE_INTEGER
  ELSE IF isHipri THEN FloorAddHalfMaxSafe(seqId)
  ELSE Wide(0, seqId)

createTrackState == [currentGroupSeq |-> 0, currentObjectSeq |-> 0]

\* createRequest: the RAW packager is always given 'key', the LOC packager chunk.type
PacketChunkType(mediaType, kind) == IF mediaType = "data" THEN "key" ELSE kind

\* createSendPromise, lines 275-278
GroupUpdate(st, chunkType) ==
  IF chunkType # "delta"
  THEN [currentGroupSeq |-> st.currentGroupSeq + 1, currentObjectSeq |-> 0]
  ELSE st

\* createSendPromise without the increment of line 287
ObjectSentNoIncrement(st) == st
\* createSendPromise, line 287
ObjectSent(st) == [st EXCEPT !.currentObjectSeq = @ + 1]

\* createSendPromise without the check of line 263
FirstObjectDroppedNever(trackId, chunkType, pubState) == FALSE
\* createSendPromise, lines 262-265: the first object of a track may not be a delta
FirstObjectDropped(trackId, chunkType, pubState) ==
  trackId \notin DOMAIN pubState /\ chunkType = "delta"

\* sendChunkToTransport, line 227
TooManyInflight(inflight, maxFlightRequests) == Cardinality(inflight) >= maxFlightRequests

initInflightReqData(trk) == [t \in DOMAIN trk |-> {}]

\* checkTrackData without the loop of lines 346-350
checkTrackDataCountOnly(trk) ==
  IF DOMAIN trk = {} THEN "Number of Track Ids to announce needs to be > 0" ELSE ""

checkTrackData(trk) ==
  IF DOMAIN trk = {} THEN "Number of Track Ids to announce needs to be > 0"
  ELSE IF \E t \in DOMAIN trk :
            NoField \in {trk[t].namespace, trk[t].name, trk[t].authInfo}
       THEN "Track malformed"
       ELSE ""

\* the first track, in Object.entries order, with this namespace and name; "null" if none
getTrack(trk, namespace, trackName) ==
  LET hits == SelectSeq(SeqOfSet(TrackOrder, DOMAIN trk),
                        LAMBDA t : trk[t].namespace = namespace /\ trk[t].name = trackName)
  IN  IF hits = <<>> THEN "null" ELSE Head(hits)

\* startLoopSubscriptionsLoop without the check of line 208
AuthMatchesAny(track, authInfo) == TRUE
\* startLoopSubscriptionsLoop, line 208
AuthMatches(track, authInfo) == track.authInfo = authInfo

\* startLoopSubscriptionsLoop, lines 211-215
AddSubscriber(track) ==
  [track EXCEPT !.numSubscribers = IF @ = ABSENT THEN 1 ELSE @ + 1]

\* the promises Promise.all waits for.  Object.values(undefined) throws when a track has
\* no in-flight map yet; concat(ret, ...) repeats promises, which does not change the set.
InflightMapsMissing == \E t \in DOMAIN tracks : t \notin DOMAIN inFlightRequests
getAllInflightRequestsArray == UNION {inFlightRequests[t] : t \in DOMAIN tracks}

addToInflight(inflight, mediaType, id) ==
  IF id \in inflight[mediaType] THEN inflight
  ELSE [inflight EXCEPT ![mediaType] = @ \cup {id}]

removeFromInflight(inflight, mediaType, id) ==
  [inflight EXCEPT ![mediaType] = @ \ {id}]

\* lines 46-48: the first message moves Created to Instantiated
Entered(st) == IF st = "Created" THEN "Instantiated" ELSE st

(* --------------------------- sender: Init ------------------------------ *)

EmptyMap == [x \in {} |-> 0]

Hist0 ==
  [submitted |-> [t \in TrackTypes |-> 0],   \* chunks that reached sendChunkToTransport
   tooMany |-> [t \in TrackTypes |-> 0],     \* 'too many inflight' drops
   stops |-> 0,                              \* stop messages accepted
   loops |-> 0]                              \* subscription loops started

\* nothing written on a track yet
NoneWritten ==
  [count |-> 0, groupSeq |-> ABSENT, objSeq |-> ABSENT, ord |-> 0, keyGroupSeq |-> ABSENT]

SenderInit ==
  /\ workerState = "Created"
  /\ tracks = NoTracks
  /\ moqPublisherState = EmptyMap
  /\ inFlightRequests = EmptyMap
  /\ moqt = [wt |-> 0, control |-> 0, stream |-> 0]
  /\ wtCount = 0
  /\ wtClosed = {}
  /\ iniHandlers = {}
  /\ sendHandlers = {}
  /\ closing = {}
  /\ stopHandlers = {}
  /\ subLoops = {}
  /\ written = [t \in TrackTypes |-> NoneWritten]
  /\ wrote = <<>>
  /\ controlOut = <<>>
  /\ events = <<>>
  /\ hist = Hist0
  /\ nInis = 0
  /\ nChunks = 0

\* a session a pending operation can still complete on
Open(sess) == sess # 0 /\ sess \notin wtClosed

\* moqClose(moqt): closes the session and the control stream, if any, and nulls the handles
moqCloseHandles == [wt |-> 0, control |-> 0, stream |-> 0]
moqCloseSessions == wtClosed \cup ({moqt.wt, moqt.control} \ {0})

(* ---------------------- sender: message listener ----------------------- *)

\* lines 50-53: any message in Stopped
OnStoppedMsg ==
  /\ workerState = "Stopped"
  /\ events' = <<Ev("info", "stopped")>>
  /\ controlOut' = <<>>
  /\ wrote' = <<>>
  /\ UNCHANGED <<workerState, tracks, moqPublisherState, inFlightRequests, moqt, wtCount,
                 wtClosed, iniHandlers, sendHandlers, closing, stopHandlers, subLoops,
                 written, hist, nInis, nChunks>>
  /\ UNCHANGED <<dlVars, soVars>>

\* lines 56-71: stop.  With nothing to wait for (or when building the array throws) the
\* await resumes in the same task and moqClose is called before any other handler runs.
OnStop ==
  /\ workerState # "Stopped"
  /\ workerState' = "Stopped"
  /\ controlOut' = <<>>
  /\ LET threw == InflightMapsMissing
         wait == IF threw THEN {} ELSE getAllInflightRequestsArray
     IN  IF wait = {}
         THEN /\ events' = IF threw THEN <<Ev("info", "aborting")>> ELSE <<>>
              /\ moqt' = moqCloseHandles
              /\ wtClosed' = moqCloseSessions
              /\ stopHandlers' = stopHandlers
              /\ hist' = [hist EXCEPT !.stops = @ + 1]
         ELSE /\ events' = <<>>
              /\ stopHandlers' = stopHandlers \cup {[id |-> hist.stops + 1, wait |-> wait]}
              /\ hist' = [hist EXCEPT !.stops = @ + 1]
              /\ UNCHANGED <<moqt, wtClosed>>
  /\ wrote' = <<>>
  /\ UNCHANGED <<tracks, moqPublisherState, inFlightRequests, wtCount, iniHandlers,
                 sendHandlers, closing, subLoops, written, nInis, nChunks>>
  /\ UNCHANGED <<dlVars, soVars>>

\* lines 73-104: muxersendini up to the first await
OnIni(cfg) ==
  /\ workerState # "Stopped"
  /\ controlOut' = <<>>
  /\ LET st == Entered(workerState)
         err == IF st # "Instantiated" THEN "wrong state"
                ELSE IF cfg.urlHostPort = "" THEN "Empty host port"
                ELSE checkTrackData(cfg.moqTracks)
     IN  /\ workerState' = st
         /\ tracks' = IF st = "Instantiated" THEN cfg.moqTracks ELSE tracks
         /\ events' = IF err # "" THEN <<Ev("error", err)>> ELSE <<>>
         /\ IF err # ""
            THEN UNCHANGED <<moqPublisherState, moqt, wtClosed, iniHandlers, nInis>>
            ELSE /\ nInis' = nInis + 1
                 /\ moqPublisherState' = EmptyMap          \* moqResetState
                 /\ moqt' = moqCloseHandles                \* moqClose
                 /\ wtClosed' = moqCloseSessions
                 /\ iniHandlers' = iniHandlers \cup
                      {[id |-> nInis + 1, pc |-> "fetch", sess |-> 0, todo |-> <<>>,
                        announced |-> {}]}
  /\ wrote' = <<>>
  /\ UNCHANGED <<inFlightRequests, wtCount, sendHandlers, closing, stopHandlers, subLoops,
                 written, hist, nChunks>>
  /\ UNCHANGED <<dlVars, soVars>>

\* pId of a new packet.  The packager makes it unique per chunk; the code uses it only as
\* a key of the in-flight maps, so the smallest name nothing refers to any more stands for
\* a fresh one.
LivePIds ==
  {h.pId : h \in sendHandlers} \cup {c.pId : c \in closing}
    \cup UNION {inFlightRequests[t] : t \in DOMAIN inFlightRequests}
    \cup UNION {sh.wait : sh \in stopHandlers}
FreshPId == CHOOSE p \in 1..(MaxChunks + 1) :
              p \notin LivePIds /\ \A q \in 1..(p - 1) : q \in LivePIds

\* lines 159-172 with the subscriber test ahead of the state test
ChunkGateSubscribersFirst(st, type) ==
  IF type \in DOMAIN tracks /\ tracks[type].numSubscribers <= 0 THEN "no subscribers"
  ELSE IF st # "Running" THEN "not open"
  ELSE IF type \notin DOMAIN tracks THEN "invalid"
  ELSE "pass"

\* lines 159-172: what the listener decides before it builds the chunk data
ChunkGate(st, type) ==
  IF st # "Running" THEN "not open"
  ELSE IF type \notin DOMAIN tracks THEN "invalid"
  ELSE IF tracks[type].numSubscribers <= 0 THEN "no subscribers"
  ELSE "pass"

\* lines 159-172: a chunk message the listener turns away.  Nothing of the chunk but its
\* type is read.
OnChunkGated(type) ==
  /\ workerState # "Stopped"
  /\ LET st == Entered(workerState)
         out == ChunkGate(st, type)
     IN  /\ out # "pass"
         /\ workerState' = st
         /\ events' =
              CASE out = "not open" -> <<Ev("dropped", "transport not open")>>
                [] out = "invalid" -> <<Ev("error", "not in tracks")>>
                [] OTHER -> <<Ev("dropped", "no subscribers")>>
  /\ controlOut' = <<>>
  /\ wrote' = <<>>
  /\ UNCHANGED <<tracks, moqPublisherState, inFlightRequests, moqt, wtCount, wtClosed,
                 iniHandlers, sendHandlers, closing, stopHandlers, subLoops, written, hist,
                 nInis, nChunks>>
  /\ UNCHANGED <<dlVars, soVars>>

\* what sendChunkToTransport and createSendPromise (to its await) decide
ChunkOutcome(type, chunkType) ==
  IF TooManyInflight(inFlightRequests[type], tracks[type].maxInFlightRequests)
  THEN "too many inflight"
  ELSE IF moqt.wt = 0 THEN "transport null"
  ELSE IF FirstObjectDropped(tracks[type].id, chunkType, moqPublisherState)
       THEN "first object delta"
  ELSE "send"

\* lines 174-196, 223-271: a chunk message that passes the listener's checks, up to the
\* await in createSendPromise
OnChunk(type, kind, seqId) ==
  /\ ChunkGate(workerState, type) = "pass"
  /\ nChunks' = nChunks + 1
  /\ controlOut' = <<>>
  /\ LET chunkType == PacketChunkType(type, kind)
         out == ChunkOutcome(type, chunkType)
         trackId == tracks[type].id
     IN  /\ events' =
              CASE out = "too many inflight" ->
                     <<Ev("sendstats", ""), Ev("dropped", "too many inflight")>>
                [] out = "transport null" ->
                     <<Ev("sendstats", ""), Ev("dropped", "transport not open"),
                       Ev("error", "transport not open")>>
                [] out = "first object delta" ->
                     <<Ev("sendstats", ""), Ev("dropped", "first object delta")>>
                [] OTHER -> <<Ev("sendstats", "")>>
         /\ moqPublisherState' =
              IF out = "send" /\ trackId \notin DOMAIN moqPublisherState
              THEN [i \in DOMAIN moqPublisherState \cup {trackId} |->
                      IF i = trackId THEN createTrackState ELSE moqPublisherState[i]]
              ELSE moqPublisherState
         /\ sendHandlers' =
              IF out = "send"
              THEN sendHandlers \cup
                     {[pId |-> FreshPId, mediaType |-> type, trackId |-> trackId,
                       chunkType |-> chunkType, seqId |-> seqId,
                       isHipri |-> tracks[type].isHipri,
                       sendOrder |-> moqCalculateSendOrder(seqId, tracks[type].isHipri),
                       sess |-> moqt.wt, ord |-> hist.submitted[type] + 1]}
              ELSE sendHandlers
         /\ hist' = [hist EXCEPT !.submitted[type] = @ + 1,
                                 !.tooMany[type] = IF out = "too many inflight" THEN @ + 1 ELSE @]
  /\ wrote' = <<>>
  /\ UNCHANGED <<workerState, tracks, inFlightRequests, moqt, wtCount, wtClosed, iniHandlers,
                 closing, stopHandlers, subLoops, written, nInis>>
  /\ UNCHANGED <<dlVars, soVars>>

(* ------------------------ sender: object path -------------------------- *)

\* lines 271-299: createUnidirectionalStream resolved; the object is written, the stream
\* closed and the close future registered
StreamCreated(h) ==
  /\ h \in sendHandlers
  /\ Open(h.sess)
  /\ LET st == GroupUpdate(moqPublisherState[h.trackId], h.chunkType)
         obj == [trackId |-> h.trackId, groupSeq |-> st.currentGroupSeq,
                 objSeq |-> st.currentObjectSeq, sendOrder |-> h.sendOrder,
                 seqId |-> h.seqId, chunkType |-> h.chunkType, pId |-> h.pId,
                 mediaType |-> h.mediaType, isHipri |-> h.isHipri, state |-> workerState,
                 ord |-> h.ord, prev |-> written[h.mediaType]]
     IN  /\ wrote' = <<obj>>
         /\ written' = [written EXCEPT ![h.mediaType] =
              [count |-> @.count + 1, groupSeq |-> obj.groupSeq, objSeq |-> obj.objSeq,
               ord |-> h.ord,
               keyGroupSeq |-> IF h.chunkType # "delta" THEN obj.groupSeq ELSE @.keyGroupSeq]]
         /\ moqPublisherState' = [moqPublisherState EXCEPT ![h.trackId] = ObjectSent(st)]
         /\ events' = <<Ev("debug", "sending")>> \o
              (IF h.pId \in inFlightRequests[h.mediaType]
               THEN <<Ev("error", "id already exists in inflight")>> ELSE <<>>)
  /\ inFlightRequests' = addToInflight(inFlightRequests, h.mediaType, h.pId)
  /\ closing' = closing \cup {[pId |-> h.pId, mediaType |-> h.mediaType, sess |-> h.sess]}
  /\ sendHandlers' = sendHandlers \ {h}
  /\ controlOut' = <<>>
  /\ UNCHANGED <<workerState, tracks, moqt, wtCount, wtClosed, iniHandlers, stopHandlers,
                 subLoops, hist, nInis, nChunks>>
  /\ UNCHANGED <<dlVars, soVars>>

\* line 271 throws; lines 188-191 report it
StreamCreateFailed(h) ==
  /\ h \in sendHandlers
  /\ sendHandlers' = sendHandlers \ {h}
  /\ events' = <<Ev("dropped", "stream error"), Ev("error", "error sending chunk")>>
  /\ controlOut' = <<>>
  /\ wrote' = <<>>
  /\ UNCHANGED <<workerState, tracks, moqPublisherState, inFlightRequests, moqt, wtCount,
                 wtClosed, iniHandlers, closing, stopHandlers, subLoops, written, hist,
                 nInis, nChunks>>
  /\ UNCHANGED <<dlVars, soVars>>

\* stop handlers whose Promise.all settles when close future pId settles: all of its
\* promises fulfilled, or this one rejected
StopsResumed(pId, ok) ==
  {sh \in stopHandlers : pId \in sh.wait /\ (~ok \/ sh.wait = {pId})}

\* a close future settles: lines 295-297 remove it, lines 181-191 report it, and a stop
\* handler whose Promise.all settles with it goes on to moqClose (lines 63-69)
CloseSettled(c, ok) ==
  /\ c \in closing
  /\ ok => Open(c.sess)
  /\ closing' = closing \ {c}
  /\ inFlightRequests' =
       IF c.mediaType \in DOMAIN inFlightRequests
       THEN removeFromInflight(inFlightRequests, c.mediaType, c.pId)
       ELSE inFlightRequests
  /\ LET resumed == StopsResumed(c.pId, ok)
     IN  /\ stopHandlers' =
              {[sh EXCEPT !.wait = @ \ {c.pId}] : sh \in stopHandlers \ resumed}
         /\ events' =
              (IF ok THEN <<Ev("debug", "sent chunk")>>
               ELSE <<Ev("dropped", "close error"), Ev("error", "error sending chunk")>>)
              \o (IF resumed # {} /\ ~ok THEN <<Ev("info", "aborting")>> ELSE <<>>)
         /\ moqt' = IF resumed # {} THEN moqCloseHandles ELSE moqt
         /\ wtClosed' = IF resumed # {} THEN moqCloseSessions ELSE wtClosed
  /\ controlOut' = <<>>
  /\ wrote' = <<>>
  /\ UNCHANGED <<workerState, tracks, moqPublisherState, wtCount, iniHandlers,
                 sendHandlers, subLoops, written, hist, nInis, nChunks>>
  /\ UNCHANGED <<dlVars, soVars>>

(* ---------------------- sender: initialisation ------------------------- *)

IniStep(h, pc, sess) == [h EXCEPT !.pc = pc, !.sess = sess]

\* the catch of lines 152-154: an await of the handler rejects
IniFailed(h) ==
  /\ h \in iniHandlers
  /\ iniHandlers' = iniHandlers \ {h}
  /\ events' = <<Ev("error", "Initializing MOQ")>>
  /\ controlOut' = <<>>
  /\ wrote' = <<>>
  /\ UNCHANGED <<workerState, tracks, moqPublisherState, inFlightRequests, moqt, wtCount,
                 wtClosed, sendHandlers, closing, stopHandlers, subLoops, written, hist,
                 nInis, nChunks>>
  /\ UNCHANGED <<dlVars, soVars>>

\* lines 104-132: moqClose and the fingerprint fetch resolved; the session is constructed
IniFetched(h) ==
  /\ h \in iniHandlers
  /\ h.pc = "fetch"
  /\ wtCount' = wtCount + 1
  /\ moqt' = [moqt EXCEPT !.wt = wtCount + 1]
  /\ iniHandlers' = (iniHandlers \ {h}) \cup {IniStep(h, "ready", wtCount + 1)}
  /\ events' = <<>>
  /\ controlOut' = <<>>
  /\ wrote' = <<>>
  /\ UNCHANGED <<workerState, tracks, moqPublisherState, inFlightRequests, wtClosed,
                 sendHandlers, closing, stopHandlers, subLoops, written, hist, nInis, nChunks>>
  /\ UNCHANGED <<dlVars, soVars>>

\* lines 132-133: wt.ready resolved; moqCreateControlStream opens a bidirectional stream
\* on moqt.wt, which throws when moqt.wt is null
IniReady(h) ==
  /\ h \in iniHandlers
  /\ h.pc = "ready"
  /\ Open(h.sess)
  /\ IF moqt.wt = 0
     THEN /\ iniHandlers' = iniHandlers \ {h}
          /\ events' = <<Ev("error", "Initializing MOQ")>>
     ELSE /\ iniHandlers' = (iniHandlers \ {h}) \cup {IniStep(h, "ctrl", moqt.wt)}
          /\ events' = <<>>
  /\ controlOut' = <<>>
  /\ wrote' = <<>>
  /\ UNCHANGED <<workerState, tracks, moqPublisherState, inFlightRequests, moqt, wtCount,
                 wtClosed, sendHandlers, closing, stopHandlers, subLoops, written, hist,
                 nInis, nChunks>>
  /\ UNCHANGED <<dlVars, soVars>>

\* lines 133-134, 320: the control stream is stored and SETUP is sent
IniCtrl(h) ==
  /\ h \in iniHandlers
  /\ h.pc = "ctrl"
  /\ Open(h.sess)
  /\ moqt' = [moqt EXCEPT !.control = h.sess, !.stream = h.id]
  /\ iniHandlers' = (iniHandlers \ {h}) \cup {IniStep(h, "setup", h.sess)}
  /\ controlOut' = <<[tag |-> "SETUP", arg |-> "publisher"]>>
  /\ events' = <<>>
  /\ wrote' = <<>>
  /\ UNCHANGED <<workerState, tracks, moqPublisherState, inFlightRequests, wtCount,
                 wtClosed, sendHandlers, closing, stopHandlers, subLoops, written, hist,
                 nInis, nChunks>>
  /\ UNCHANGED <<dlVars, soVars>>

\* line 323
RoleSupported(role) ==
  role = MOQ_PARAMETER_ROLE_SUBSCRIBER \/ role = MOQ_PARAMETER_ROLE_BOTH

\* line 330 with every namespace taken as not announced yet
UnannouncedAll(todo, announced) == todo

\* line 330: the entries left whose namespace is not in announcedNamespaces
Unannounced(todo, announced) ==
  SelectSeq(todo, LAMBDA e : e.namespace \notin announced)

\* lines 329-339 from the top of the loop, then lines 136-151: announce the next namespace
\* not announced yet, or finish the initialisation and start the subscription loop
AnnounceNext(h, todo, announced, evs) ==
  LET rest == Unannounced(todo, announced)
  IN  IF rest # <<>>
      THEN /\ IF moqt.control = 0
              THEN /\ iniHandlers' = iniHandlers \ {h}
                   /\ events' = evs \o <<Ev("error", "Initializing MOQ")>>
                   /\ controlOut' = <<>>
              ELSE /\ iniHandlers' = (iniHandlers \ {h}) \cup
                        {[h EXCEPT !.pc = "announce", !.sess = moqt.control,
                                   !.todo = rest, !.announced = announced]}
                   /\ events' = evs
                   /\ controlOut' = <<[tag |-> "ANNOUNCE", arg |-> Head(rest).namespace]>>
           /\ UNCHANGED <<workerState, inFlightRequests, subLoops, hist>>
      ELSE /\ iniHandlers' = iniHandlers \ {h}
           /\ inFlightRequests' = initInflightReqData(tracks)
           /\ workerState' = "Running"
           /\ subLoops' = subLoops \cup
                {[id |-> hist.loops + 1, pc |-> "parse", sess |-> moqt.control,
                  stream |-> moqt.stream]}
           /\ hist' = [hist EXCEPT !.loops = @ + 1]
           /\ events' = evs \o <<Ev("info", "MOQ Initialized"),
                                 Ev("info", "Started subscription loop")>>
           /\ controlOut' = <<>>

\* lines 321-331: SETUP_OK arrived
IniSetupOk(h, role) ==
  /\ h \in iniHandlers
  /\ h.pc = "setup"
  /\ Open(h.sess)
  /\ IF ~RoleSupported(role)
     THEN /\ iniHandlers' = iniHandlers \ {h}
          /\ events' = <<Ev("info", "SETUP response"), Ev("error", "Initializing MOQ")>>
          /\ controlOut' = <<>>
          /\ UNCHANGED <<workerState, inFlightRequests, subLoops, hist>>
     ELSE AnnounceNext(h,
            [i \in 1..Len(SeqOfSet(TrackOrder, DOMAIN tracks)) |->
               [namespace |-> tracks[SeqOfSet(TrackOrder, DOMAIN tracks)[i]].namespace,
                authInfo |-> tracks[SeqOfSet(TrackOrder, DOMAIN tracks)[i]].authInfo]],
            {}, <<Ev("info", "SETUP response")>>)
  /\ wrote' = <<>>
  /\ UNCHANGED <<tracks, moqPublisherState, moqt, wtCount, wtClosed, sendHandlers, closing,
                 stopHandlers, written, nInis, nChunks>>
  /\ UNCHANGED <<dlVars, soVars>>

\* lines 332-338: ANNOUNCE_OK arrived
IniAnnounceOk(h, namespace) ==
  /\ h \in iniHandlers
  /\ h.pc = "announce"
  /\ Open(h.sess)
  /\ IF Head(h.todo).namespace # namespace
     THEN /\ iniHandlers' = iniHandlers \ {h}
          /\ events' = <<Ev("info", "ANNOUNCE response"), Ev("error", "Initializing MOQ")>>
          /\ controlOut' = <<>>
          /\ UNCHANGED <<workerState, inFlightRequests, subLoops, hist>>
     ELSE AnnounceNext(h, Tail(h.todo), h.announced \cup {namespace},
                       <<Ev("info", "ANNOUNCE response")>>)
  /\ wrote' = <<>>
  /\ UNCHANGED <<tracks, moqPublisherState, moqt, wtCount, wtClosed, sendHandlers, closing,
                 stopHandlers, written, nInis, nChunks>>
  /\ UNCHANGED <<dlVars, soVars>>

(* --------------------- sender: subscription loop ----------------------- *)

\* line 202 and lines 142-144: the loop condition after an iteration
LoopNext(l, evs) ==
  IF workerState = "Running"
  THEN /\ subLoops' = (subLoops \ {l}) \cup {[l EXCEPT !.pc = "parse"]}
       /\ events' = evs
  ELSE /\ subLoops' = subLoops \ {l}
       /\ events' = evs \o <<Ev("info", "Exited subscription loop")>>

\* lines 203-217: a SUBSCRIBE_REQUEST was read
SubRead(l, namespace, trackName, authInfo) ==
  /\ l \in subLoops
  /\ l.pc = "parse"
  /\ Open(l.sess)
  /\ LET t == getTrack(tracks, namespace, trackName)
     IN  IF t = "null"
         THEN /\ LoopNext(l, <<Ev("error", "Invalid subscribe")>>)
              /\ controlOut' = <<>>
              /\ tracks' = tracks
         ELSE IF ~AuthMatches(tracks[t], authInfo)
         THEN /\ LoopNext(l, <<Ev("error", "Invalid subscribe authInfo")>>)
              /\ controlOut' = <<>>
              /\ tracks' = tracks
         ELSE /\ tracks[t].numSubscribers < MaxSubscribers
              /\ tracks' = [tracks EXCEPT ![t] = AddSubscriber(@)]
              /\ events' = <<Ev("info", "New subscriber")>>
              /\ controlOut' = <<[tag |-> "SUBSCRIBE_RESPONSE",
                                  arg |-> <<namespace, trackName, tracks[t].id, 0>>]>>
              /\ subLoops' = (subLoops \ {l}) \cup {[l EXCEPT !.pc = "respond"]}
  /\ wrote' = <<>>
  /\ UNCHANGED <<workerState, moqPublisherState, inFlightRequests, moqt, wtCount, wtClosed,
                 iniHandlers, sendHandlers, closing, stopHandlers, written, hist, nInis, nChunks>>
  /\ UNCHANGED <<dlVars, soVars>>

\* line 217 resolved: the response was written
SubResponded(l) ==
  /\ l \in subLoops
  /\ l.pc = "respond"
  /\ Open(l.sess)
  /\ LoopNext(l, <<>>)
  /\ controlOut' = <<>>
  /\ wrote' = <<>>
  /\ UNCHANGED <<workerState, tracks, moqPublisherState, inFlightRequests, moqt, wtCount,
                 wtClosed, iniHandlers, sendHandlers, closing, stopHandlers, written, hist,
                 nInis, nChunks>>
  /\ UNCHANGED <<dlVars, soVars>>

\* an await of the loop rejects: lines 145-151
SubFailed(l) ==
  /\ l \in subLoops
  /\ subLoops' = subLoops \ {l}
  /\ events' = IF workerState # "Stopped"
               THEN <<Ev("error", "Error in the subscription loop")>>
               ELSE <<Ev("info", "Exited subscription loop")>>
  /\ controlOut' = <<>>
  /\ wrote' = <<>>
  /\ UNCHANGED <<workerState, tracks, moqPublisherState, inFlightRequests, moqt, wtCount,
                 wtClosed, iniHandlers, sendHandlers, closing, stopHandlers, written, hist,
                 nInis, nChunks>>
  /\ UNCHANGED <<dlVars, soVars>>

SenderNext ==
  \/ OnStoppedMsg
  \/ OnStop
  \/ \E cfg \in Configs : nInis < MaxInis /\ OnIni(cfg)
  \/ \E type \in ChunkTypes : OnChunkGated(type)
  \/ \E type \in TrackTypes, kind \in ChunkKinds, seqId \in ChunkSeqIds :
       nChunks < MaxChunks /\ OnChunk(type, kind, seqId)
  \/ \E h \in sendHandlers : StreamCreated(h)
  \/ \E h \in sendHandlers : StreamCreateFailed(h)
  \/ \E c \in closing, ok \in BOOLEAN : CloseSettled(c, ok)
  \/ \E h \in iniHandlers : IniFailed(h)
  \/ \E h \in iniHandlers : IniFetched(h)
  \/ \E h \in iniHandlers : IniReady(h)
  \/ \E h \in iniHandlers : IniCtrl(h)
  \/ \E h \in iniHandlers, role \in Roles : IniSetupOk(h, role)
  \/ \E h \in iniHandlers, namespace \in SubNamespaces : IniAnnounceOk(h, namespace)
  \/ \E l \in subLoops, namespace \in SubNamespaces, trackName \in SubNames,
        authInfo \in SubAuths : SubRead(l, namespace, trackName, authInfo)
  \/ \E l \in subLoops : SubResponded(l)
  \/ \E l \in subLoops : SubFailed(l)

\* a session the host opens with a well-formed muxersendini as its first message and
\* never stops; every chunk carries the same seqId
SessionNext ==
  \/ \E cfg \in {CfgSplit, CfgShared} : workerState = "Created" /\ OnIni(cfg)
  \/ \E type \in ChunkTypes : OnChunkGated(type)
  \/ \E type \in TrackTypes, kind \in ChunkKinds :
       nChunks < MaxSessionChunks /\ OnChunk(type, kind, 2)
  \/ \E h \in sendHandlers : StreamCreated(h)
  \/ \E h \in sendHandlers : StreamCreateFailed(h)
  \/ \E c \in closing, ok \in BOOLEAN : CloseSettled(c, ok)
  \/ \E h \in iniHandlers : IniFailed(h)
  \/ \E h \in iniHandlers : IniFetched(h)
  \/ \E h \in iniHandlers : IniReady(h)
  \/ \E h \in iniHandlers : IniCtrl(h)
  \/ \E h \in iniHandlers, role \in Roles : IniSetupOk(h, role)
  \/ \E h \in iniHandlers, namespace \in SubNamespaces : IniAnnounceOk(h, namespace)
  \/ \E l \in subLoops, namespace \in SubNamespaces, trackName \in SubNames,
        authInfo \in SubAuths : SubRead(l, namespace, trackName, authInfo)
  \/ \E l \in subLoops : SubResponded(l)
  \/ \E l \in subLoops : SubFailed(l)

\* lines 74-99: a muxersendini the listener turns away
IniRejected(cfg) ==
  \/ Entered(workerState) # "Instantiated"
  \/ cfg.urlHostPort = ""
  \/ checkTrackData(cfg.moqTracks) # ""

\* the life of a worker whose host gets at most one muxersendini accepted: any message
\* in any state, stop included; every chunk carries the same seqId
LifeNext ==
  \/ OnStoppedMsg
  \/ OnStop
  \/ \E cfg \in Configs : (nInis = 0 \/ IniRejected(cfg)) /\ OnIni(cfg)
  \/ \E type \in ChunkTypes : OnChunkGated(type)
  \/ \E type \in TrackTypes, kind \in ChunkKinds :
       nChunks < MaxLifeChunks /\ OnChunk(type, kind, 2)
  \/ \E h \in sendHandlers : StreamCreated(h)
  \/ \E h \in sendHandlers : StreamCreateFailed(h)
  \/ \E c \in closing, ok \in BOOLEAN : CloseSettled(c, ok)
  \/ \E h \in iniHandlers : IniFailed(h)
  \/ \E h \in iniHandlers : IniFetched(h)
  \/ \E h \in iniHandlers : IniReady(h)
  \/ \E h \in iniHandlers : IniCtrl(h)
  \/ \E h \in iniHandlers, role \in Roles : IniSetupOk(h, role)
  \/ \E h \in iniHandlers, namespace \in SubNamespaces : IniAnnounceOk(h, namespace)
  \/ \E l \in subLoops, namespace \in SubNamespaces, trackName \in SubNames,
        authInfo \in SubAuths : SubRead(l, namespace, trackName, authInfo)
  \/ \E l \in subLoops : SubResponded(l)
  \/ \E l \in subLoops : SubFailed(l)

\* a host that sends well-formed muxersendini messages without waiting for the first
\* initialisation to finish, and never stops; every chunk is a key chunk with one seqId
ReinitNext ==
  \/ \E cfg \in {CfgSplit, CfgShared} : nInis < MaxReinits /\ OnIni(cfg)
  \/ \E type \in TrackTypes : nChunks < MaxReinitChunks /\ OnChunk(type, "key", 2)
  \/ \E h \in sendHandlers : StreamCreated(h)
  \/ \E h \in sendHandlers : StreamCreateFailed(h)
  \/ \E c \in closing, ok \in BOOLEAN : CloseSettled(c, ok)
  \/ \E h \in iniHandlers : IniFailed(h)
  \/ \E h \in iniHandlers : IniFetched(h)
  \/ \E h \in iniHandlers : IniReady(h)
  \/ \E h \in iniHandlers : IniCtrl(h)
  \/ \E h \in iniHandlers, role \in Roles : IniSetupOk(h, role)
  \/ \E h \in iniHandlers, namespace \in SubNamespaces : IniAnnounceOk(h, namespace)
  \/ \E l \in subLoops, namespace \in SubNamespaces, trackName \in SubNames,
        authInfo \in SubAuths : SubRead(l, namespace, trackName, authInfo)
  \/ \E l \in subLoops : SubResponded(l)
  \/ \E l \in subLoops : SubFailed(l)

(* ------------------------- receiver: inputs ---------------------------- *)

DlTrack(ns, name, auth) ==
  [id |-> ABSENT, namespace |-> ns, name |-> name, authInfo |-> auth]

DlNoTracks == [t \in {} |-> DlTrack(NoField, NoField, NoField)]

DlCfgOk ==
  [urlHostPort |-> "host", urlPath |-> "path", isSendingStats |-> TRUE,
   moqTracks |-> [t \in {"video", "data"} |-> DlTrack("ns1", t, "secret")]]
DlCfgNoPath == [DlCfgOk EXCEPT !.urlPath = NoField]
DlCfgEmpty == [DlCfgOk EXCEPT !.moqTracks = DlNoTracks]
DlCfgBadUrl == [DlCfgOk EXCEPT !.urlHostPort = ""]
DlConfigs == {DlCfgOk, DlCfgNoPath, DlCfgEmpty, DlCfgBadUrl}

\* trackId values the peer puts in a SUBSCRIBE_RESPONSE or an object header
DlTrackIds == {0, 1}
\* a field of the LOC envelope: present or undefined
DlChunkTypes == {"key", NoField}
DlMediaTypes == {"video", NoField}

(* --------------------------- receiver: Init ---------------------------- *)

DlInit ==
  /\ dlWorkerState = "Created"
  /\ dlUrlHostPortEp = ""
  /\ dlIsSendingStats = FALSE
  /\ dlTracks = DlNoTracks
  /\ dlTracksGen = 0
  /\ dlMoqt = [wt |-> 0, control |-> 0]
  /\ dlWtCount = 0
  /\ dlWtClosed = {}
  /\ dlIniHandlers = {}
  /\ dlLoops = {}
  /\ dlControlOut = <<>>
  /\ dlEvents = <<>>
  /\ nDlMsgs = 0
  /\ nDlInis = 0
  /\ nStreams = 0

DlOpen(sess) == sess # 0 /\ sess \notin dlWtClosed

\* moqClose(moqt) of the receiver
DlCloseSessions == dlWtClosed \cup ({dlMoqt.wt, dlMoqt.control} \ {0})

(* ----------------------- receiver: pure functions ---------------------- *)

\* lines 47-49: what the listener makes of the state before it looks at the message
DlEntered(st) == IF st = "Created" \/ st = "Stopped" THEN "Instantiated" ELSE st

\* part_000 lines 256-267
DlCheckTrackData(trk) ==
  IF DOMAIN trk = {} THEN "Number of Track Ids to announce needs to be > 0"
  ELSE IF \E t \in DOMAIN trk :
            NoField \in {trk[t].namespace, trk[t].name, trk[t].authInfo}
       THEN "Track malformed"
       ELSE ""

\* getTrackTypeFromTrackId falling back to the video track when no id matches
getTrackTypeFromTrackIdOrVideo(trk, trackId) ==
  LET hits == SelectSeq(SeqOfSet(TrackOrder, DOMAIN trk), LAMBDA t : trk[t].id = trackId)
  IN  IF hits = <<>> THEN "video" ELSE Head(hits)

\* the first track type, in Object.entries order, whose id is trackId; "undefined" if none
getTrackTypeFromTrackId(trk, trackId) ==
  LET hits == SelectSeq(SeqOfSet(TrackOrder, DOMAIN trk), LAMBDA t : trk[t].id = trackId)
  IN  IF hits = <<>> THEN "undefined" ELSE Head(hits)

\* line 239: the roles the subscriber accepts from its peer
DlRoleSupported(role) ==
  role = MOQ_PARAMETER_ROLE_PUBLISHER \/ role = MOQ_PARAMETER_ROLE_BOTH

\* Object.entries(tracks) as the for loop of moqCreateSubscriberSession sees it
DlTrackEntries(trk) ==
  [i \in 1..Len(SeqOfSet(TrackOrder, DOMAIN trk)) |->
     [type |-> SeqOfSet(TrackOrder, DOMAIN trk)[i],
      namespace |-> trk[SeqOfSet(TrackOrder, DOMAIN trk)[i]].namespace,
      name |-> trk[SeqOfSet(TrackOrder, DOMAIN trk)[i]].name]]

(* --------------------- receiver: message listener ---------------------- *)

\* lines 47-66: stop
DlOnStop ==
  /\ nDlMsgs' = nDlMsgs + 1
  /\ IF DlEntered(dlWorkerState) = "Stopped"
     THEN /\ dlEvents' = <<Ev("info", "stopped")>>
          /\ UNCHANGED <<dlWorkerState, dlMoqt, dlWtClosed>>
     ELSE /\ dlWorkerState' = "Stopped"
          /\ dlMoqt' = moqCloseHandles
          /\ dlWtClosed' = DlCloseSessions
          /\ dlEvents' = <<>>
  /\ dlControlOut' = <<>>
  /\ UNCHANGED <<dlUrlHostPortEp, dlIsSendingStats, dlTracks, dlTracksGen, dlWtCount,
                 dlIniHandlers, dlLoops, nStreams, nDlInis>>
  /\ UNCHANGED <<senderVars, soVars>>

\* lines 47-55 and the end of the listener: a message that is neither stop nor
\* downloadersendini
DlOnOther ==
  /\ nDlMsgs' = nDlMsgs + 1
  /\ IF DlEntered(dlWorkerState) = "Stopped"
     THEN /\ dlEvents' = <<Ev("info", "stopped")>>
          /\ UNCHANGED dlWorkerState
     ELSE /\ dlWorkerState' = DlEntered(dlWorkerState)
          /\ dlEvents' = <<>>
  /\ dlControlOut' = <<>>
  /\ UNCHANGED <<dlUrlHostPortEp, dlIsSendingStats, dlTracks, dlTracksGen, dlMoqt,
                 dlWtCount, dlWtClosed, dlIniHandlers, dlLoops, nStreams, nDlInis>>
  /\ UNCHANGED <<senderVars, soVars>>

\* lines 47-94: downloadersendini up to the first await
DlOnIni(cfg) ==
  /\ nDlMsgs' = nDlMsgs + 1
  /\ dlControlOut' = <<>>
  /\ LET st == DlEntered(dlWorkerState)
         configured == st = "Instantiated" /\ NoField \notin {cfg.urlHostPort, cfg.urlPath}
         err == IF st = "Stopped" THEN "stopped"
                ELSE IF st # "Instantiated" THEN "wrong state"
                ELSE IF ~configured THEN "We need host, streamId to start playback"
                ELSE DlCheckTrackData(cfg.moqTracks)
     IN  /\ dlWorkerState' = st
         /\ dlEvents' = IF err = "stopped" THEN <<Ev("info", "stopped")>>
                        ELSE IF err # "" THEN <<Ev("error", err)>>
                        ELSE <<>>
         /\ dlUrlHostPortEp' = IF configured THEN cfg.urlHostPort ELSE dlUrlHostPortEp
         /\ dlIsSendingStats' = IF configured THEN cfg.isSendingStats ELSE dlIsSendingStats
         /\ dlTracks' = IF configured THEN cfg.moqTracks ELSE dlTracks
         /\ dlTracksGen' = IF configured THEN dlTracksGen + 1 ELSE dlTracksGen
         /\ IF err # ""
            THEN UNCHANGED <<dlMoqt, dlWtClosed, dlIniHandlers, nDlInis>>
            ELSE /\ nDlInis' = nDlInis + 1
                 /\ dlMoqt' = moqCloseHandles
                 /\ dlWtClosed' = DlCloseSessions
                 /\ dlIniHandlers' = dlIniHandlers \cup
                      {[id |-> nDlInis + 1, pc |-> "fetch", sess |-> 0, entries |-> <<>>,
                        gen |-> 0]}
  /\ UNCHANGED <<dlWtCount, dlLoops, nStreams>>
  /\ UNCHANGED <<senderVars, soVars>>

(* ----------------------- receiver: initialisation ---------------------- *)

\* the catch of lines 134-136: an await of the handler rejects
DlIniFailed(h) ==
  /\ h \in dlIniHandlers
  /\ dlIniHandlers' = dlIniHandlers \ {h}
  /\ dlEvents' = <<Ev("error", "Initializing MOQ")>>
  /\ dlControlOut' = <<>>
  /\ UNCHANGED <<dlWorkerState, dlUrlHostPortEp, dlIsSendingStats, dlTracks, dlTracksGen,
                 dlMoqt, dlWtCount, dlWtClosed, dlLoops, nDlMsgs, nStreams, nDlInis>>
  /\ UNCHANGED <<senderVars, soVars>>

\* lines 94-125: moqClose and the fingerprint fetch resolved; new URL throws on an empty
\* string, otherwise the session is constructed
DlIniFetched(h) ==
  /\ h \in dlIniHandlers
  /\ h.pc = "fetch"
  /\ IF dlUrlHostPortEp = ""
     THEN /\ dlIniHandlers' = dlIniHandlers \ {h}
          /\ dlEvents' = <<Ev("error", "Initializing MOQ")>>
          /\ UNCHANGED <<dlMoqt, dlWtCount>>
     ELSE /\ dlWtCount' = dlWtCount + 1
          /\ dlMoqt' = [dlMoqt EXCEPT !.wt = dlWtCount + 1]
          /\ dlIniHandlers' = (dlIniHandlers \ {h}) \cup
               {[h EXCEPT !.pc = "ready", !.sess = dlWtCount + 1]}
          /\ dlEvents' = <<>>
  /\ dlControlOut' = <<>>
  /\ UNCHANGED <<dlWorkerState, dlUrlHostPortEp, dlIsSendingStats, dlTracks, dlTracksGen,
                 dlWtClosed, dlLoops, nDlMsgs, nStreams, nDlInis>>
  /\ UNCHANGED <<senderVars, soVars>>

\* lines 125-126: wt.ready resolved; moqCreateControlStream opens a bidirectional stream
\* on moqt.wt, which throws when moqt.wt is null
DlIniReady(h) ==
  /\ h \in dlIniHandlers
  /\ h.pc = "ready"
  /\ DlOpen(h.sess)
  /\ IF dlMoqt.wt = 0
     THEN /\ dlIniHandlers' = dlIniHandlers \ {h}
          /\ dlEvents' = <<Ev("error", "Initializing MOQ")>>
     ELSE /\ dlIniHandlers' = (dlIniHandlers \ {h}) \cup
               {[h EXCEPT !.pc = "ctrl", !.sess = dlMoqt.wt]}
          /\ dlEvents' = <<>>
  /\ dlControlOut' = <<>>
  /\ UNCHANGED <<dlWorkerState, dlUrlHostPortEp, dlIsSendingStats, dlTracks, dlTracksGen,
                 dlMoqt, dlWtCount, dlWtClosed, dlLoops, nDlMsgs, nStreams, nDlInis>>
  /\ UNCHANGED <<senderVars, soVars>>

\* lines 126-127, 237: the control stream is stored and SETUP is sent
DlIniCtrl(h) ==
  /\ h \in dlIniHandlers
  /\ h.pc = "ctrl"
  /\ DlOpen(h.sess)
  /\ dlMoqt' = [dlMoqt EXCEPT !.control = h.sess]
  /\ dlIniHandlers' = (dlIniHandlers \ {h}) \cup {[h EXCEPT !.pc = "setup"]}
  /\ dlControlOut' = <<[tag |-> "SETUP", arg |-> "subscriber"]>>
  /\ dlEvents' = <<>>
  /\ UNCHANGED <<dlWorkerState, dlUrlHostPortEp, dlIsSendingStats, dlTracks, dlTracksGen,
                 dlWtCount, dlWtClosed, dlLoops, nDlMsgs, nStreams, nDlInis>>
  /\ UNCHANGED <<senderVars, soVars>>

\* lines 244-253 from the top of the loop, then lines 129-133 and 141-153: subscribe to
\* the next track, or finish the initialisation and start receiving
DlSubscribeNext(h, entries, gen, evs) ==
  IF entries # <<>>
  THEN /\ IF dlMoqt.control = 0
          THEN /\ dlIniHandlers' = dlIniHandlers \ {h}
               /\ dlEvents' = evs \o <<Ev("error", "Initializing MOQ")>>
               /\ dlControlOut' = <<>>
          ELSE /\ dlIniHandlers' = (dlIniHandlers \ {h}) \cup
                    {[h EXCEPT !.pc = "subscribe", !.sess = dlMoqt.control,
                               !.entries = entries, !.gen = gen]}
               /\ dlEvents' = evs
               /\ dlControlOut' = <<[tag |-> "SUBSCRIBE",
                                     arg |-> <<Head(entries).namespace, Head(entries).name>>]>>
       /\ UNCHANGED <<dlWorkerState, dlLoops>>
  ELSE /\ dlIniHandlers' = dlIniHandlers \ {h}
       /\ dlWorkerState' = "Running"
       /\ dlControlOut' = <<>>
       /\ IF dlMoqt.wt = 0
          THEN /\ dlEvents' = evs \o <<Ev("info", "MOQ Initialized"),
                                       Ev("error", "WT is not initialized")>>
               /\ dlLoops' = dlLoops
          ELSE /\ dlEvents' = evs \o <<Ev("info", "MOQ Initialized")>>
               /\ dlLoops' = dlLoops \cup
                    {[id |-> h.id, pc |-> "read", sess |-> dlMoqt.wt, trackType |-> ""]}

\* lines 238-244: SETUP_OK arrived
DlIniSetupOk(h, role) ==
  /\ h \in dlIniHandlers
  /\ h.pc = "setup"
  /\ DlOpen(h.sess)
  /\ IF ~DlRoleSupported(role)
     THEN /\ dlIniHandlers' = dlIniHandlers \ {h}
          /\ dlEvents' = <<Ev("error", "Initializing MOQ")>>
          /\ dlControlOut' = <<>>
          /\ UNCHANGED <<dlWorkerState, dlLoops>>
     ELSE DlSubscribeNext(h, DlTrackEntries(dlTracks), dlTracksGen,
                          <<Ev("info", "SETUP response")>>)
  /\ UNCHANGED <<dlUrlHostPortEp, dlIsSendingStats, dlTracks, dlTracksGen, dlMoqt,
                 dlWtCount, dlWtClosed, nDlMsgs, nStreams, nDlInis>>
  /\ UNCHANGED <<senderVars, soVars>>

\* lines 246-252: SUBSCRIBE_RESPONSE arrived.  trackData is an entry of the object the
\* loop started on; the id is visible through tracks while tracks still is that object.
DlIniSubscribeOk(h, namespace, trackName, trackId) ==
  /\ h \in dlIniHandlers
  /\ h.pc = "subscribe"
  /\ DlOpen(h.sess)
  /\ IF Head(h.entries).namespace # namespace \/ Head(h.entries).name # trackName
     THEN /\ dlIniHandlers' = dlIniHandlers \ {h}
          /\ dlEvents' = <<Ev("info", "SUBSCRIBE response"), Ev("error", "Initializing MOQ")>>
          /\ dlControlOut' = <<>>
          /\ UNCHANGED <<dlWorkerState, dlLoops, dlTracks>>
     ELSE /\ dlTracks' = IF h.gen = dlTracksGen
                         THEN [dlTracks EXCEPT ![Head(h.entries).type].id = trackId]
                         ELSE dlTracks
          /\ DlSubscribeNext(h, Tail(h.entries), h.gen, <<Ev("info", "SUBSCRIBE response")>>)
  /\ UNCHANGED <<dlUrlHostPortEp, dlIsSendingStats, dlTracksGen, dlMoqt, dlWtCount,
                 dlWtClosed, nDlMsgs, nStreams, nDlInis>>
  /\ UNCHANGED <<senderVars, soVars>>

(* ------------------------ receiver: receive loop ----------------------- *)

\* line 153: the loop condition after an iteration
DlLoopNext(l, evs) ==
  /\ dlLoops' = IF dlWorkerState # "Stopped"
                THEN (dlLoops \ {l}) \cup {[l EXCEPT !.pc = "read", !.trackType = ""]}
                ELSE dlLoops \ {l}
  /\ dlEvents' = evs

\* lines 40-44
reportStats == IF dlIsSendingStats THEN <<Ev("downloaderstats", "")>> ELSE <<>>

\* the catch of lines 160-163
DlDropped == <<Ev("dropped stream", "WT error"), Ev("error", "WT request")>>

\* lines 154-158: readableStream.read() resolved with a stream
DlStreamRead(l) ==
  /\ l \in dlLoops
  /\ l.pc = "read"
  /\ DlOpen(l.sess)
  /\ nStreams' = nStreams + 1
  /\ dlLoops' = (dlLoops \ {l}) \cup {[l EXCEPT !.pc = "header"]}
  /\ dlEvents' = reportStats
  /\ dlControlOut' = <<>>
  /\ UNCHANGED <<dlWorkerState, dlUrlHostPortEp, dlIsSendingStats, dlTracks, dlTracksGen,
                 dlMoqt, dlWtCount, dlWtClosed, dlIniHandlers, nDlMsgs, nDlInis>>
  /\ UNCHANGED <<senderVars, soVars>>

\* lines 154-157: readableStream.read() resolved with done
DlStreamsDone(l) ==
  /\ l \in dlLoops
  /\ l.pc = "read"
  /\ DlLoopNext(l, reportStats)
  /\ dlControlOut' = <<>>
  /\ UNCHANGED <<dlWorkerState, dlUrlHostPortEp, dlIsSendingStats, dlTracks, dlTracksGen,
                 dlMoqt, dlWtCount, dlWtClosed, dlIniHandlers, nDlMsgs, nStreams, nDlInis>>
  /\ UNCHANGED <<senderVars, soVars>>

\* line 154: readableStream.read() rejected, outside the try: the loop ends
DlReadFailed(l) ==
  /\ l \in dlLoops
  /\ l.pc = "read"
  /\ dlLoops' = dlLoops \ {l}
  /\ dlEvents' = <<>>
  /\ dlControlOut' = <<>>
  /\ UNCHANGED <<dlWorkerState, dlUrlHostPortEp, dlIsSendingStats, dlTracks, dlTracksGen,
                 dlMoqt, dlWtCount, dlWtClosed, dlIniHandlers, nDlMsgs, nStreams, nDlInis>>
  /\ UNCHANGED <<senderVars, soVars>>

\* lines 181-187: the object header was parsed
DlHeaderParsed(l, trackId) ==
  /\ l \in dlLoops
  /\ l.pc = "header"
  /\ LET trackType == getTrackTypeFromTrackId(dlTracks, trackId)
     IN  IF trackType = "undefined"
         THEN DlLoopNext(l, <<Ev("debug", "Received MOQT obj")>> \o DlDropped)
         ELSE /\ dlLoops' = (dlLoops \ {l}) \cup
                   {[l EXCEPT !.pc = "body", !.trackType = trackType]}
              /\ dlEvents' = <<Ev("debug", "Received MOQT obj")>>
  /\ dlControlOut' = <<>>
  /\ UNCHANGED <<dlWorkerState, dlUrlHostPortEp, dlIsSendingStats, dlTracks, dlTracksGen,
                 dlMoqt, dlWtCount, dlWtClosed, dlIniHandlers, nDlMsgs, nStreams, nDlInis>>
  /\ UNCHANGED <<senderVars, soVars>>

\* lines 189-231: the packager read the payload
DlBodyRead(l, chunkType, mediaType, late) ==
  /\ l \in dlLoops
  /\ l.pc = "body"
  /\ IF l.trackType = "data"
     THEN DlLoopNext(l, <<Ev("debug", "Decoded MOQT-RAW"), Ev("data", "")>>)
     ELSE IF chunkType = NoField \/ mediaType = NoField
     THEN DlLoopNext(l, DlDropped)
     ELSE DlLoopNext(l, <<Ev("debug", "Decoded MOQT-LOC"), Ev(mediaType \o "chunk", chunkType),
                          Ev(IF late THEN "warning" ELSE "debug", "response: 200")>>)
  /\ dlControlOut' = <<>>
  /\ UNCHANGED <<dlWorkerState, dlUrlHostPortEp, dlIsSendingStats, dlTracks, dlTracksGen,
                 dlMoqt, dlWtCount, dlWtClosed, dlIniHandlers, nDlMsgs, nStreams, nDlInis>>
  /\ UNCHANGED <<senderVars, soVars>>

\* moqParseObjectHeader or ReadBytes rejected: the catch of lines 160-163
DlStreamFailed(l) ==
  /\ l \in dlLoops
  /\ l.pc \in {"header", "body"}
  /\ DlLoopNext(l, DlDropped)
  /\ dlControlOut' = <<>>
  /\ UNCHANGED <<dlWorkerState, dlUrlHostPortEp, dlIsSendingStats, dlTracks, dlTracksGen,
                 dlMoqt, dlWtCount, dlWtClosed, dlIniHandlers, nDlMsgs, nStreams, nDlInis>>
  /\ UNCHANGED <<senderVars, soVars>>

DlNext ==
  \/ nDlMsgs < MaxDlMsgs /\ DlOnStop
  \/ nDlMsgs < MaxDlMsgs /\ DlOnOther
  \/ \E cfg \in DlConfigs : nDlMsgs < MaxDlMsgs /\ nDlInis < MaxDlInis /\ DlOnIni(cfg)
  \/ \E h \in dlIniHandlers : DlIniFailed(h)
  \/ \E h \in dlIniHandlers : DlIniFetched(h)
  \/ \E h \in dlIniHandlers : DlIniReady(h)
  \/ \E h \in dlIniHandlers : DlIniCtrl(h)
  \/ \E h \in dlIniHandlers, role \in Roles : DlIniSetupOk(h, role)
  \/ \E h \in dlIniHandlers, namespace \in SubNamespaces, trackName \in SubNames,
        trackId \in DlTrackIds : DlIniSubscribeOk(h, namespace, trackName, trackId)
  \/ \E l \in dlLoops : nStreams < MaxStreams /\ DlStreamRead(l)
  \/ \E l \in dlLoops : DlStreamsDone(l)
  \/ \E l \in dlLoops : DlReadFailed(l)
  \/ \E l \in dlLoops, trackId \in DlTrackIds : DlHeaderParsed(l, trackId)
  \/ \E l \in dlLoops, chunkType \in DlChunkTypes, mediaType \in DlMediaTypes,
        late \in BOOLEAN : DlBodyRead(l, chunkType, mediaType, late)
  \/ \E l \in dlLoops : DlStreamFailed(l)

(* ---------------------------- send order ------------------------------- *)

SendOrderSeqIds == -2..MaxSeqId

SendOrderInit ==
  /\ soSeqId \in SendOrderSeqIds
  /\ soOther \in SendOrderSeqIds
  /\ soIsHipri \in BOOLEAN
  /\ soOrder = <<>>

\* no calculation is going on
SendOrderIdle ==
  /\ soSeqId = 0
  /\ soOther = 0
  /\ soIsHipri = FALSE
  /\ soOrder = <<>>

Calculate ==
  /\ soOrder = <<>>
  /\ soOrder' = <<moqCalculateSendOrder(soSeqId, soIsHipri),
                  moqCalculateSendOrder(soOther, soIsHipri)>>
  /\ UNCHANGED <<soSeqId, soOther, soIsHipri>>
  /\ UNCHANGED <<senderVars, dlVars>>

(* -------------------------- specifications ----------------------------- *)

\* both workers as constructed, no send order being calculated
Init == SenderInit /\ DlInit /\ SendOrderIdle

\* the sender under every sequence of host messages
Spec == Init /\ [][SenderNext]_vars

\* the sender in a session that is never stopped
SpecSession == Init /\ [][SessionNext]_vars

\* the sender worker with overlapping initialisations
SpecReinit == Init /\ [][ReinitNext]_vars

\* the sender worker through its life, one initialisation accepted
SpecLife == Init /\ [][LifeNext]_vars

\* the receiver
SpecDl == Init /\ [][DlNext]_vars

\* both workers as constructed, a send order to be calculated
InitSendOrder == SenderInit /\ DlInit /\ SendOrderInit

\* moqCalculateSendOrder on every pair of seqIds
SpecSendOrder == InitSendOrder /\ [][Calculate]_vars

(* ------------------------------ claims --------------------------------- *)

Lex(a, b) == a[1] < b[1] \/ (a[1] = b[1] /\ a[2] < b[2])
PendingOn(t) == {h \in sendHandlers : h.mediaType = t}
ClosingOn(t) == {c \in closing : c.mediaType = t}
HasEvent(evs, type, msg) == \E i \in DOMAIN evs : evs[i] = Ev(type, msg)

\* C1: in every reachable state, every configured track has at most maxInFlightRequests
\* entries in inFlightRequests[track].
InFlightBound ==
  \A t \in DOMAIN tracks \cap DOMAIN inFlightRequests :
    Cardinality(inFlightRequests[t]) <= tracks[t].maxInFlightRequests

\* C2: while Running with a subscriber, when maxInFlight + k chunks were submitted on a
\* track, none of them was dropped for another reason, every handler is past its stream
\* creation and no close future has settled, exactly k chunks were dropped as 'too many
\* inflight' and exactly maxInFlight objects were written.
OverflowCount ==
  \A t \in DOMAIN tracks \cap DOMAIN inFlightRequests :
    ( /\ workerState = "Running"
      /\ tracks[t].numSubscribers >= 1
      /\ hist.submitted[t] >= tracks[t].maxInFlightRequests
      /\ PendingOn(t) = {}
      /\ Cardinality(ClosingOn(t)) = written[t].count
      /\ hist.submitted[t] = written[t].count + hist.tooMany[t] )
    => /\ written[t].count = tracks[t].maxInFlightRequests
       /\ hist.tooMany[t] = hist.submitted[t] - tracks[t].maxInFlightRequests

\* C3: every object written on a track carries a (groupSeq, objSeq) pair that is
\* lexicographically greater than the pair of the object written before it on that track.
MonotonicObjectSeq ==
  \A i \in DOMAIN wrote :
    wrote[i].prev.count > 0 =>
      Lex(<<wrote[i].prev.groupSeq, wrote[i].prev.objSeq>>,
          <<wrote[i].groupSeq, wrote[i].objSeq>>)

\* an object was just written into the group of the object before it on its track
MonotonicObjectSeqWitness ==
  \E i \in DOMAIN wrote :
    /\ wrote[i].prev.count > 0
    /\ wrote[i].prev.groupSeq = wrote[i].groupSeq
    /\ wrote[i].objSeq > 0

\* C4: a key object written on a track that wrote a key object before has the groupSeq of
\* that earlier key object plus one, and objSeq 0.
GroupBoundary ==
  \A i \in DOMAIN wrote :
    (wrote[i].chunkType # "delta" /\ wrote[i].prev.keyGroupSeq # ABSENT) =>
      /\ wrote[i].groupSeq = wrote[i].prev.keyGroupSeq + 1
      /\ wrote[i].objSeq = 0

\* the listener accepted the chunk and sendChunkToTransport let it through to
\* createSendPromise with an open transport
Accepted(type) ==
  /\ ChunkGate(workerState, type) = "pass"
  /\ Cardinality(inFlightRequests[type]) < tracks[type].maxInFlightRequests
  /\ moqt.wt # 0

\* C5: a step that handles an accepted 'delta' chunk of a track without publisher state
\* opens no stream (no handler is left waiting for one, nothing is written), creates no
\* publisher state, adds nothing to the in-flight set and posts the 'dropped' event that
\* says the first object may not be a delta.
DeltaFirstRejected ==
  [][\A type \in TrackTypes \ {"data"}, seqId \in ChunkSeqIds :
       ( /\ Accepted(type)
         /\ tracks[type].id \notin DOMAIN moqPublisherState
         /\ OnChunk(type, "delta", seqId) )
       => /\ sendHandlers' = sendHandlers
          /\ wrote' = <<>>
          /\ moqPublisherState' = moqPublisherState
          /\ inFlightRequests' = inFlightRequests
          /\ HasEvent(events', "dropped", "first object delta")]_vars

\* a first delta chunk was just dropped while the track still has no publisher state
DeltaFirstRejectedWitness ==
  /\ HasEvent(events, "dropped", "first object delta")
  /\ workerState = "Running"
  /\ \E t \in DOMAIN tracks :
       tracks[t].numSubscribers >= 1 /\ tracks[t].id \notin DOMAIN moqPublisherState

\* events other than the report that the subscription loop ended
WithoutLoopExit(evs) ==
  SelectSeq(evs, LAMBDA e : e # Ev("info", "Exited subscription loop"))

\* C6: a step of the subscription loop that reads a SUBSCRIBE_REQUEST naming no track, or
\* carrying an authInfo other than the track's, leaves numSubscribers of every track as it
\* was, writes nothing on the control stream and posts exactly one event, an error.
AuthGate ==
  [][\A l \in subLoops, namespace \in SubNamespaces, trackName \in SubNames,
        authInfo \in SubAuths :
       ( /\ SubRead(l, namespace, trackName, authInfo)
         /\ \/ getTrack(tracks, namespace, trackName) = "null"
            \/ tracks[getTrack(tracks, namespace, trackName)].authInfo # authInfo )
       => /\ DOMAIN tracks' = DOMAIN tracks
          /\ \A t \in DOMAIN tracks : tracks'[t].numSubscribers = tracks[t].numSubscribers
          /\ controlOut' = <<>>
          /\ Len(WithoutLoopExit(events')) = 1
          /\ WithoutLoopExit(events')[1].type = "error"]_vars

\* a request with a wrong authInfo for an existing track was just turned away
AuthGateWitness ==
  /\ events = <<Ev("error", "Invalid subscribe authInfo")>>
  /\ controlOut = <<>>
  /\ \E l \in subLoops : l.pc = "parse"

\* C7: for two chunks a, b of one track with 0 <= a.seqId < b.seqId, moqCalculateSendOrder
\* gives b a strictly greater sendOrder than a.
PriorityLaw ==
  (soOrder # <<>> /\ 0 <= soSeqId /\ soSeqId < soOther) => WideLess(soOrder[1], soOrder[2])

\* the sendOrder the documented formula gives
FormulaSendOrder(seqId, isHipri) ==
  IF seqId < 0 THEN U64_MAX
  ELSE IF isHipri THEN HalfMaxSafePlus(seqId)
  ELSE Wide(0, seqId)

\* C8: the sendOrder of every object written is U64_MAX when seqId < 0, seqId +
\* floor(MAX_SAFE / 2) when seqId >= 0 on a high-priority track, and seqId otherwise.
SendOrderFormula ==
  \A i \in DOMAIN wrote :
    wrote[i].sendOrder = FormulaSendOrder(wrote[i].seqId, wrote[i].isHipri)

\* C9: once the sender's workerState is Stopped it is Stopped after every later step,
\* whatever host messages arrive and whatever pending handlers resume.
SenderStoppedTerminal ==
  [][workerState = "Stopped" => workerState' = "Stopped"]_vars

\* C10: once the receiver's workerState is Stopped it is Stopped after every later step,
\* and a host message received in Stopped creates no transport, sends no control message
\* and changes no state.
ReceiverStoppedTerminal ==
  [][dlWorkerState = "Stopped" =>
       /\ dlWorkerState' = "Stopped"
       /\ nDlMsgs' # nDlMsgs =>
            /\ dlEvents' = <<Ev("info", "stopped")>>
            /\ UNCHANGED <<dlUrlHostPortEp, dlIsSendingStats, dlTracks, dlMoqt, dlWtCount,
                           dlWtClosed, dlIniHandlers, dlLoops>>]_vars


\* C11: on stop the transport is closed (a stop handler goes on to moqClose) only after
\* every close future that was in the in-flight set when the stop arrived has settled,
\* fulfilled or rejected: a stop handler that leaves its wait waits for no close future
\* that is still pending
StopAwaitsAllCloses ==
  [][\A sh \in stopHandlers :
       (\A sh2 \in stopHandlers' : sh2.id # sh.id)
         => sh.wait \cap {c.pId : c \in closing'} = {}]_vars

\* C12: when SETUP_OK carries a role other than SUBSCRIBER or BOTH the sender reports an
\* error, sends no ANNOUNCE, does not enter Running, starts no subscription loop, and the
\* session of that handshake is closed
HandshakeRoleError ==
  [][\A h \in iniHandlers : \A role \in Roles :
       (~RoleSupported(role) /\ IniSetupOk(h, role))
         => /\ \E i \in 1..Len(events') : events'[i].type = "error"
            /\ controlOut' = <<>>
            /\ workerState' = workerState
            /\ subLoops' = subLoops
            /\ h.sess \in wtClosed']_vars

Announces(out) == {out[i].arg : i \in {j \in DOMAIN out : out[j].tag = "ANNOUNCE"}}

\* C13: in a publisher handshake every ANNOUNCE is for a namespace of the configured
\* tracks that this handshake has not announced before, and is sent only on SETUP_OK or
\* on the ANNOUNCE_OK of the previous ANNOUNCE; the handshake reaches Running only when
\* every namespace of the tracks has been announced and acknowledged; an ANNOUNCE_OK for
\* another namespace ends the handshake without Running and without a further ANNOUNCE
AnnouncePerNamespace ==
  [][/\ \A ns \in Announces(controlOut') :
         \E h \in iniHandlers : \E g \in iniHandlers' :
           /\ g.id = h.id /\ g.pc = "announce"
           /\ ns = Head(g.todo).namespace
           /\ ns \notin g.announced
           /\ ns \in {tracks[t].namespace : t \in DOMAIN tracks}
           /\ \/ h.pc = "setup" /\ g.announced = {}
              \/ /\ h.pc = "announce"
                 /\ g.announced = h.announced \cup {Head(h.todo).namespace}
                 /\ Len(g.todo) < Len(h.todo)
     /\ (workerState # "Running" /\ workerState' = "Running")
          => \E h \in iniHandlers \ iniHandlers' :
               /\ h.pc = "announce"
               /\ h.announced \cup {Head(h.todo).namespace}
                    = {tracks[t].namespace : t \in DOMAIN tracks}
     /\ \A h \in iniHandlers : \A ns \in SubNamespaces :
          (h.pc = "announce" /\ ns # Head(h.todo).namespace /\ IniAnnounceOk(h, ns))
            => /\ \A g \in iniHandlers' : g.id # h.id
               /\ workerState' = workerState
               /\ subLoops' = subLoops
               /\ controlOut' = <<>>]_vars

\* the second ANNOUNCE of a handshake has just been sent, after the first ANNOUNCE_OK
AnnouncePerNamespaceWitness ==
  \E h \in iniHandlers :
    /\ h.pc = "announce" /\ h.announced # {}
    /\ controlOut = <<[tag |-> "ANNOUNCE", arg |-> Head(h.todo).namespace]>>

\* what a turned-away chunk message leaves behind: one dropped event with the reason,
\* no stream requested, no object written, publisher state and in-flight set as before
GateDropped(reason) ==
  /\ events' = <<Ev("dropped", reason)>>
  /\ sendHandlers' = sendHandlers
  /\ wrote' = <<>>
  /\ moqPublisherState' = moqPublisherState
  /\ inFlightRequests' = inFlightRequests

\* C14 as stated: a chunk message received in any state other than Running (Stopped
\* included, where OnStoppedMsg is what the listener does with it), or in Running for a
\* configured track without subscribers, yields exactly one dropped event with the
\* reason, the state test first, and changes nothing of the sending state
AcceptGates ==
  [][\A type \in ChunkTypes :
       ( /\ OnStoppedMsg \/ OnChunkGated(type)
         /\ Entered(workerState) # "Running" \/ type \in DOMAIN tracks )
       => GateDropped(IF Entered(workerState) # "Running"
                      THEN "transport not open" ELSE "no subscribers")]_vars

\* C14 amended: the same for a chunk message received in Created or Instantiated, or in
\* Running for a configured track without subscribers
AcceptGatesBeforeStop ==
  [][\A type \in ChunkTypes :
       ( /\ workerState # "Stopped"
         /\ OnChunkGated(type)
         /\ Entered(workerState) # "Running" \/ type \in DOMAIN tracks )
       => GateDropped(IF Entered(workerState) # "Running"
                      THEN "transport not open" ELSE "no subscribers")]_vars

\* a chunk for a configured track was just turned away in Running for lack of subscribers
AcceptGatesWitness ==
  /\ events = <<Ev("dropped", "no subscribers")>>
  /\ workerState = "Running"
  /\ \E t \in DOMAIN tracks : tracks[t].numSubscribers <= 0

\* a muxersendini turned away: one error event, no transport constructed, no handshake
\* started, nothing handed to the control stream
IniRefused ==
  /\ Len(events') = 1 /\ events'[1].type = "error"
  /\ wtCount' = wtCount /\ moqt' = moqt /\ wtClosed' = wtClosed
  /\ iniHandlers' = iniHandlers
  /\ controlOut' = <<>> /\ wrote' = <<>>

\* the worker's state apart from the events it posts
IniKeepsState ==
  UNCHANGED <<workerState, tracks, moqPublisherState, inFlightRequests, moqt, wtCount,
              wtClosed, iniHandlers, sendHandlers, closing, stopHandlers, subLoops,
              written, hist>>

\* the configs with an empty host, an empty track set, a track without authInfo
BadConfig(cfg) == cfg \in {CfgNoHost, CfgEmpty, CfgMalformed}

\* C15 as stated: a muxersendini with a bad config received in Instantiated is refused
\* with an error event and the state stays Instantiated; a muxersendini received in any
\* other state (Created, Running, or Stopped, where OnStoppedMsg is what the listener
\* does with it) is refused with an error event and changes no state
ConfigErrorOnInit ==
  [][\A cfg \in Configs :
       /\ (workerState = "Instantiated" /\ BadConfig(cfg) /\ OnIni(cfg))
            => IniRefused /\ workerState' = "Instantiated"
       /\ (workerState # "Instantiated" /\ (OnIni(cfg) \/ OnStoppedMsg))
            => IniRefused /\ IniKeepsState]_vars

\* C15 amended: the same for a bad config in Instantiated; a muxersendini received in
\* Running is refused with an error event and changes no state
ConfigErrorOnInitRunning ==
  [][\A cfg \in Configs :
       /\ (workerState = "Instantiated" /\ BadConfig(cfg) /\ OnIni(cfg))
            => IniRefused /\ workerState' = "Instantiated"
       /\ (workerState = "Running" /\ OnIni(cfg))
            => IniRefused /\ IniKeepsState]_vars

\* a muxersendini whose track lacks authInfo was just refused in Instantiated
ConfigErrorOnInitWitness ==
  /\ events = <<Ev("error", "Track malformed")>>
  /\ workerState = "Instantiated"
  /\ tracks = CfgMalformed.moqTracks

NumSubscribers(track) == IF track.numSubscribers = ABSENT THEN 0 ELSE track.numSubscribers
Responses(out) == {j \in DOMAIN out : out[j].tag = "SUBSCRIBE_RESPONSE"}

\* C16: a SUBSCRIBE_REQUEST read in Running that names a configured track with the right
\* authInfo raises that track's numSubscribers by exactly one, leaves the other tracks
\* alone and writes exactly one SUBSCRIBE_RESPONSE echoing namespace, name, track.id and
\* expires 0; a response is written only in the step that reads its request, and no
\* request is read from a control stream while a response to an earlier request of that
\* stream is still being written, so the responses keep the order of the requests
SubscribeResponses ==
  [][/\ \A l \in subLoops, namespace \in SubNamespaces, trackName \in SubNames,
           authInfo \in SubAuths :
          ( /\ workerState = "Running"
            /\ SubRead(l, namespace, trackName, authInfo)
            /\ getTrack(tracks, namespace, trackName) # "null"
            /\ tracks[getTrack(tracks, namespace, trackName)].authInfo = authInfo )
          => /\ DOMAIN tracks' = DOMAIN tracks
             /\ \A t \in DOMAIN tracks :
                  NumSubscribers(tracks'[t]) = NumSubscribers(tracks[t]) +
                    (IF t = getTrack(tracks, namespace, trackName) THEN 1 ELSE 0)
             /\ controlOut' =
                  <<[tag |-> "SUBSCRIBE_RESPONSE",
                     arg |-> <<namespace, trackName,
                               tracks[getTrack(tracks, namespace, trackName)].id, 0>>]>>
             /\ \E g \in subLoops' : g.id = l.id /\ g.pc = "respond"
     /\ Responses(controlOut') # {}
          => \E l \in subLoops : \E g \in subLoops' :
               /\ l.pc = "parse" /\ g.id = l.id /\ g.pc = "respond"
     /\ \A l \in subLoops, namespace \in SubNamespaces, trackName \in SubNames,
           authInfo \in SubAuths :
          SubRead(l, namespace, trackName, authInfo)
            => \A k \in subLoops : k.stream = l.stream => k.pc = "parse"]_vars

\* C17: of two chunks of one track that both get sent, the one the message handler
\* processed first has its object header written first: every object header written
\* belongs to a chunk processed after the chunk of the header written before it on the
\* track, whatever the order in which the createUnidirectionalStream calls resolve
EmissionOrder ==
  \A i \in DOMAIN wrote : wrote[i].prev.ord < wrote[i].ord

IsChunkEvent(e) == e.type \in {"data"} \cup {mt \o "chunk" : mt \in DlMediaTypes}
DlHasDropped(evs) == \E i \in DOMAIN evs : evs[i].type = "dropped stream"

\* the processing of the stream loop l is on fails in this step: the header or the
\* payload cannot be read, the trackId is unknown, or the envelope lacks a field
DlStreamFails(l) ==
  \/ DlStreamFailed(l)
  \/ \E trackId \in DlTrackIds :
       /\ DlHeaderParsed(l, trackId)
       /\ \A t \in DOMAIN dlTracks : dlTracks[t].id # trackId
  \/ \E chunkType \in DlChunkTypes, mediaType \in DlMediaTypes, late \in BOOLEAN :
       /\ DlBodyRead(l, chunkType, mediaType, late)
       /\ l.trackType # "data"
       /\ chunkType = NoField \/ mediaType = NoField

\* C18: when the processing of an incoming stream fails in Running, the receiver posts
\* a dropped stream event and no chunk event, stays Running, and its loop goes back to
\* reading the next stream; chunk events are posted only by a step that finishes a
\* stream without dropping it
StreamFailureIsolated ==
  [][/\ \A l \in dlLoops :
          (dlWorkerState = "Running" /\ DlStreamFails(l))
            => /\ DlHasDropped(dlEvents')
               /\ \A i \in DOMAIN dlEvents' : ~IsChunkEvent(dlEvents'[i])
               /\ dlWorkerState' = "Running"
               /\ \E g \in dlLoops' : g.id = l.id /\ g.pc = "read"
     /\ (\E i \in DOMAIN dlEvents' : IsChunkEvent(dlEvents'[i]))
          => /\ ~DlHasDropped(dlEvents')
             /\ \E l \in dlLoops : l.pc = "body" /\ l \notin dlLoops']_vars

\* in Running, a stream was just dropped and the loop is back at reading
StreamFailureIsolatedWitness ==
  /\ dlWorkerState = "Running"
  /\ DlHasDropped(dlEvents)
  /\ nStreams > 0
  /\ \E l \in dlLoops : l.pc = "read"

\* C19: once the state has become Stopped, the subscription loop starts no iteration
\* beyond the one in progress (no loop comes to wait for a request that was not waiting
\* for it already, and no loop is started), and what the loop's rejection posts while
\* the state is Stopped is an info event, never an error event
LoopShutdown ==
  [][/\ hist.stops > 0
          => \A g \in subLoops' : g.pc = "parse" => g \in subLoops
     /\ \A l \in subLoops :
          (workerState = "Stopped" /\ SubFailed(l))
            => /\ \A i \in DOMAIN events' : events'[i].type # "error"
               /\ \E i \in DOMAIN events' : events'[i].type = "info"]_vars

\* C20: an entry of inFlightRequests[track] leaves the set only in the step in which
\* its own close future settles, and the step in which a close future settles, fulfilled
\* or rejected, leaves no entry under its pId
InFlightRemoval ==
  [][/\ \A t \in DOMAIN inFlightRequests : \A p \in inFlightRequests[t] :
          (t \notin DOMAIN inFlightRequests' \/ p \notin inFlightRequests'[t])
            => \E c \in closing \ closing' : c.pId = p /\ c.mediaType = t
     /\ \A c \in closing \ closing' :
          c.mediaType \in DOMAIN inFlightRequests'
            => c.pId \notin inFlightRequests'[c.mediaType]]_vars

\* C21: once the state is Stopped, a step opens no unidirectional stream and writes no
\* object header (no suspended chunk handler gets its stream), requests no new stream,
\* and adds no entry to the in-flight set
NoSendsAfterStop ==
  [][workerState = "Stopped"
       => /\ wrote' = <<>>
          /\ closing' \subseteq closing
          /\ sendHandlers' \subseteq sendHandlers
          /\ \A t \in DOMAIN inFlightRequests' :
               t \in DOMAIN inFlightRequests
                 => inFlightRequests'[t] \subseteq inFlightRequests[t]]_vars

\* C22: the first object header written on a track belongs to a key object and carries
\* (groupSeq, objSeq) = (1, 0), so no delta object is written on a track before a key
\* object of that track, whether the stream creation of the first key chunk is pending,
\* has failed or has succeeded
FirstObjectIsKey ==
  \A i \in DOMAIN wrote :
    wrote[i].prev.count = 0
      => /\ wrote[i].chunkType = "key"
         /\ wrote[i].groupSeq = 1
         /\ wrote[i].objSeq = 0

\* C23: at any time at most one muxersendini handler is past the state check and busy
\* with the transport and the handshake, at most one transport session has been made
\* and not closed, and at most one subscription loop has ever been started
SingleInitialisation ==
  /\ Cardinality(iniHandlers) <= 1
  /\ Cardinality((1..wtCount) \ wtClosed) <= 1
  /\ hist.loops <= 1

====
